---- MODULE Spec2Model ----
(***************************************************************************)
(* A top-to-bottom run of "Notebook 6 - Regularization with Lasso and      *)
(* Ridge Regression": the interactive namespace, the arrays the code cells *)
(* allocate and fill, and the position of the kernel in the notebook.      *)
(*                                                                         *)
(* Cells are numbered by their position in the notebook (0-based, markdown *)
(* cells included); only code cells execute.                               *)
(***************************************************************************)
EXTENDS Integers, Sequences, FiniteSets, TLC

(***************************************************************************)
(* Natural numbers of any size: little-endian sequences of limbs in base   *)
(* Base = 2^LimbBits, without leading zero limbs (zero is << >>).  They    *)
(* carry the 53-bit significands of the IEEE doubles np.arange computes    *)
(* with, which do not fit the checker's 32-bit integers.                   *)
(***************************************************************************)
LimbBits == 15

Base == 2 ^ LimbBits

RECURSIVE BTrim(_)
BTrim(a) ==
    IF a = << >> THEN << >>
    ELSE IF a[Len(a)] = 0 THEN BTrim(SubSeq(a, 1, Len(a) - 1)) ELSE a

RECURSIVE BFromInt(_)
BFromInt(v) == IF v = 0 THEN << >> ELSE <<v % Base>> \o BFromInt(v \div Base)

RECURSIVE BToInt(_)
BToInt(a) == IF a = << >> THEN 0 ELSE a[1] + Base * BToInt(Tail(a))

\* a * s + carry, for 0 < s < Base
RECURSIVE BMulS(_, _, _)
BMulS(a, s, carry) ==
    IF a = << >> THEN BFromInt(carry)
    ELSE LET t == a[1] * s + carry
         IN  <<t % Base>> \o BMulS(Tail(a), s, t \div Base)

\* a * s, for 0 <= s < Base
BScale(a, s) == IF s = 0 THEN << >> ELSE BMulS(a, s, 0)

RECURSIVE BAddC(_, _, _)
BAddC(a, b, carry) ==
    IF a = << >> /\ b = << >> THEN BFromInt(carry)
    ELSE LET x == IF a = << >> THEN 0 ELSE a[1]
             y == IF b = << >> THEN 0 ELSE b[1]
             t == x + y + carry
         IN  <<t % Base>> \o BAddC(IF a = << >> THEN a ELSE Tail(a),
                                   IF b = << >> THEN b ELSE Tail(b),
                                   t \div Base)

BAdd(a, b) == BAddC(a, b, 0)

\* -1, 0, 1 as a < b, a = b, a > b
RECURSIVE BCmpFrom(_, _, _)
BCmpFrom(a, b, k) ==
    IF k = 0 THEN 0
    ELSE IF a[k] < b[k] THEN -1
    ELSE IF a[k] > b[k] THEN 1
    ELSE BCmpFrom(a, b, k - 1)

BCmp(a, b) ==
    IF Len(a) < Len(b) THEN -1
    ELSE IF Len(a) > Len(b) THEN 1
    ELSE BCmpFrom(a, b, Len(a))

\* a - b - borrow, for a >= b
RECURSIVE BSubB(_, _, _)
BSubB(a, b, borrow) ==
    IF a = << >> THEN << >>
    ELSE LET y == IF b = << >> THEN 0 ELSE b[1]
             t == a[1] - y - borrow
         IN  <<IF t < 0 THEN t + Base ELSE t>>
             \o BSubB(Tail(a), IF b = << >> THEN b ELSE Tail(b),
                      IF t < 0 THEN 1 ELSE 0)

BSub(a, b) == BTrim(BSubB(a, b, 0))

\* a * 2^k
BShl(a, k) ==
    IF a = << >> THEN << >>
    ELSE [j \in 1..(k \div LimbBits) |-> 0] \o BMulS(a, 2 ^ (k % LimbBits), 0)

\* the number of bits of a, 0 for zero
BitLen(a) ==
    IF a = << >> THEN 0
    ELSE (Len(a) - 1) * LimbBits
         + (CHOOSE b \in 1..LimbBits : 2 ^ (b - 1) <= a[Len(a)] /\ a[Len(a)] < 2 ^ b)

BIsOdd(a) == a # << >> /\ a[1] % 2 = 1

\* the largest t in lo..hi with d * t <= r, given d * lo <= r
RECURSIVE QDigit(_, _, _, _)
QDigit(r, d, lo, hi) ==
    IF lo = hi THEN lo
    ELSE LET mid == (lo + hi + 1) \div 2
         IN  IF BCmp(BScale(d, mid), r) <= 0
             THEN QDigit(r, d, mid, hi)
             ELSE QDigit(r, d, lo, mid - 1)

\* floor(a / d) and a mod d for d > 0, by long division, a limb at a time
RECURSIVE BDivMod(_, _)
BDivMod(a, d) ==
    IF a = << >> THEN [q |-> << >>, r |-> << >>]
    ELSE LET h  == BDivMod(Tail(a), d)
             r0 == BTrim(<<a[1]>> \o h.r)
             t  == QDigit(r0, d, 0, Base - 1)
         IN  [q |-> BTrim(<<t>> \o h.q), r |-> BSub(r0, BScale(d, t))]

\* the integer nearest to a / d, ties to the even one
BRoundDiv(a, d) ==
    LET h == BDivMod(a, d)
        c == BCmp(BShl(h.r, 1), d)
    IN  IF c > 0 \/ (c = 0 /\ BIsOdd(h.q)) THEN BAdd(h.q, <<1>>) ELSE h.q

RECURSIVE BMul(_, _)
BMul(a, b) ==
    IF a = << >> \/ b = << >> THEN << >>
    ELSE BAdd(BScale(a, b[1]), BTrim(<<0>> \o BMul(a, Tail(b))))

(***************************************************************************)
(* IEEE-754 binary64 values that are zero or positive and normal: the      *)
(* record [m, e] stands for m * 2^e with 2^52 <= m < 2^53, and zero is     *)
(* DZero.  Every operation computes the exact result and rounds it to the  *)
(* nearest double, ties to even, as the hardware does.                     *)
(***************************************************************************)
MantBits == 53

DZero == [m |-> << >>, e |-> 0]

P53 == BShl(<<1>>, MantBits)

\* the double nearest to (num / den) * 2^e, for num > 0: the quotient is
\* scaled by 2^s so that it has MantBits bits before it is rounded
DNorm(num, den, e) ==
    LET s0 == MantBits - (BitLen(num) - BitLen(den))
        up(s) == IF s >= 0 THEN BShl(num, s) ELSE num
        dn(s) == IF s >= 0 THEN den ELSE BShl(den, 0 - s)
        s  == IF BCmp(up(s0), BMul(dn(s0), P53)) >= 0 THEN s0 - 1 ELSE s0
        m  == BRoundDiv(up(s), dn(s))
    IN  IF m = P53 THEN [m |-> BShl(<<1>>, MantBits - 1), e |-> e - s + 1]
        ELSE [m |-> m, e |-> e - s]

DFromRatio(num, den, e) == IF num = << >> THEN DZero ELSE DNorm(num, den, e)

\* a decimal literal of the source, num / den
DLit(num, den) == DFromRatio(BFromInt(num), BFromInt(den), 0)

DFromInt(i) == DFromRatio(BFromInt(i), <<1>>, 0)

DMin(a, b) == IF a < b THEN a ELSE b

\* the exact integer v * 2^(-lo), for lo <= v.e
DScaled(v, lo) == BShl(v.m, v.e - lo)

DCmp(a, b) ==
    IF a = DZero THEN (IF b = DZero THEN 0 ELSE -1)
    ELSE IF b = DZero THEN 1
    ELSE LET lo == DMin(a.e, b.e) IN BCmp(DScaled(a, lo), DScaled(b, lo))

DAdd(a, b) ==
    IF a = DZero THEN b
    ELSE IF b = DZero THEN a
    ELSE LET lo == DMin(a.e, b.e)
         IN  DFromRatio(BAdd(DScaled(a, lo), DScaled(b, lo)), <<1>>, lo)

\* a - b for a >= b
DSub(a, b) ==
    IF b = DZero THEN a
    ELSE LET lo == DMin(a.e, b.e)
         IN  DFromRatio(BSub(DScaled(a, lo), DScaled(b, lo)), <<1>>, lo)

DMul(a, b) ==
    IF a = DZero \/ b = DZero THEN DZero
    ELSE DFromRatio(BMul(a.m, b.m), <<1>>, a.e + b.e)

DDiv(a, b) == IF a = DZero THEN DZero ELSE DFromRatio(a.m, b.m, a.e - b.e)

\* ceil(a) as an integer
DCeil(a) ==
    IF a = DZero THEN 0
    ELSE IF a.e >= 0 THEN BToInt(BShl(a.m, a.e))
    ELSE LET h == BDivMod(a.m, BShl(<<1>>, 0 - a.e))
         IN  BToInt(h.q) + (IF h.r = << >> THEN 0 ELSE 1)

(***************************************************************************)
(* numpy.arange(start, stop, step) for floating-point arguments: the       *)
(* length is ceil((stop - start) / step) computed in doubles, the first    *)
(* two elements are start and start + step, and element i is               *)
(* start + i * delta with delta = (start + step) - start.  The sequence is *)
(* 1-based here: ArangeValues(...)[k] is the array's element k - 1.        *)
(***************************************************************************)
ArangeLen(start, stop, step) == DCeil(DDiv(DSub(stop, start), step))

ArangeValues(start, stop, step) ==
    LET len   == ArangeLen(start, stop, step)
        next  == DAdd(start, step)
        delta == DSub(next, start)
    IN  [k \in 1..len |->
            IF k = 1 THEN start
            ELSE IF k = 2 THEN next
            ELSE DAdd(start, DMul(DFromInt(k - 1), delta))]

(***************************************************************************)
(* The code cells.  A statement is the set of notebook-level names it      *)
(* reads, the names it binds and the objects it mutates in place, in the   *)
(* order the interpreter meets them: a read of a name that is not bound    *)
(* raises NameError and ends the cell.  Builtins (range, len, str, print)  *)
(* are always bound and comprehension variables are local, so neither is   *)
(* listed.                                                                 *)
(***************************************************************************)
St(r, b, m) == [reads |-> r, binds |-> b, mutates |-> m]

\* cell 1: the imports
Cell1 ==
    << St({}, {"pd"}, {}), St({}, {"np"}, {}), St({}, {"meshgrid"}, {}),
       St({}, {"plt"}, {}), St({}, {"sns"}, {}), St({"sns"}, {}, {}) >>

\* cells 3 and 30: x = np.linspace(...); y = x*(x-1) + 1.2*np.random.randn(100)
DataStmts == << St({"np"}, {"x"}, {}), St({"x", "np"}, {"y"}, {}) >>

Cell3 == DataStmts \o << St({"plt", "x", "y"}, {}, {}) >>

Cell4 ==
    << St({}, {"PolynomialFeatures"}, {}), St({}, {"Pipeline"}, {}),
       St({}, {"LinearRegression"}, {}) >>

Cell5 == << St({}, {"n"}, {}), St({"np", "n"}, {"coef_holder"}, {}) >>

\* cell 6: the for statement, which evaluates range(1,n+1) once
Cell6Head == << St({"n"}, {}, {}) >>

\* cell 6: one pass through the loop body, i bound by the for statement
Cell6Body ==
    << St({}, {"i"}, {}),
       St({"Pipeline", "PolynomialFeatures", "i", "LinearRegression"}, {"pipe"}, {}),
       St({"pipe", "x", "y"}, {}, {"pipe"}),
       St({"np", "pipe", "i", "coef_holder"}, {}, {"coef_holder"}) >>

\* cell 7 rounding coef_holder in place before it displays it
Cell7InPlace == << St({"pd", "coef_holder", "n"}, {}, {"coef_holder"}) >>

Cell7 == << St({"pd", "coef_holder", "n"}, {}, {}) >>

Cell8 == << St({"plt", "x", "y", "pipe", "n"}, {}, {}) >>

\* cell 10 with its import statement left out
Cell10Forgotten == << >>

Cell10 == << St({}, {"Ridge"}, {}) >>

Cell11Head ==
    << St({"np"}, {"alphas"}, {}), St({}, {"norms"}, {}), St({"alphas"}, {}, {}) >>

Cell11Body ==
    << St({}, {"a"}, {}),
       St({"Pipeline", "PolynomialFeatures", "Ridge", "a"}, {"pipe"}, {}),
       St({"pipe", "x", "y"}, {}, {"pipe"}),
       St({"pipe"}, {"coefs"}, {}),
       St({"norms", "np", "coefs"}, {}, {"norms"}) >>

Cell12 == << St({"plt", "alphas", "norms"}, {}, {}) >>

Cell14 ==
    << St({"np"}, {"age"}, {}), St({"np"}, {"distance"}, {}),
       St({"age", "distance", "np"}, {"tiredness"}, {}),
       St({"pd", "age", "distance", "tiredness"}, {"df"}, {}) >>

\* an exercise cell that a student has filled in
BlankStmtsFilled == << St({}, {"model"}, {}) >>

\* a cell that holds only the comment "## Code here"
BlankStmts == << >>

Cell25 == << St({}, {"StandardScaler"}, {}) >>

Cell32 == << St({}, {"Lasso"}, {}) >>

Cell33Head ==
    << St({}, {"alpha"}, {}), St({}, {"n"}, {}),
       St({"np", "alpha", "n"}, {"ridge_coefs"}, {}),
       St({"np", "alpha", "n"}, {"lasso_coefs"}, {}),
       St({"alpha"}, {}, {}) >>

Cell33Body ==
    << St({}, {"i"}, {}),
       St({"Pipeline", "PolynomialFeatures", "n", "Ridge", "alpha", "i"},
          {"ridge_pipe"}, {}),
       St({"Pipeline", "PolynomialFeatures", "n", "Lasso", "alpha", "i"},
          {"lasso_pipe"}, {}),
       St({"ridge_pipe", "x", "y"}, {}, {"ridge_pipe"}),
       St({"lasso_pipe", "x", "y"}, {}, {"lasso_pipe"}),
       St({"ridge_coefs", "i", "ridge_pipe"}, {}, {"ridge_coefs"}),
       St({"lasso_coefs", "i", "lasso_pipe"}, {}, {"lasso_coefs"}) >>

Cell34 == << St({"pd", "np", "ridge_coefs", "n", "alpha"}, {}, {}) >>

Cell35 == << St({"pd", "np", "lasso_coefs", "n", "alpha"}, {}, {}) >>

Cell37 == << St({}, {"g"}, {}) >>

Cell38 == << St({"g"}, {"X", "y"}, {}) >>

Cell43 == << St({"g"}, {}, {}) >>

\* the notebook-level names the notebook ever binds
Names ==
    { "pd", "np", "meshgrid", "plt", "sns", "x", "y", "PolynomialFeatures",
      "Pipeline", "LinearRegression", "n", "coef_holder", "i", "pipe", "Ridge",
      "alphas", "norms", "a", "coefs", "age", "distance", "tiredness", "df",
      "StandardScaler", "Lasso", "alpha", "ridge_coefs", "lasso_coefs",
      "ridge_pipe", "lasso_pipe", "g", "X" }

\* the notebook with the cell that prints the formula moved up, before the
\* exercise cells of its section
CodeCellsMoved ==
    << 1, 3, 4, 5, 6, 7, 8, 10, 11, 12, 14, 16, 17, 19, 20, 22, 23, 25, 26, 27,
       30, 32, 33, 34, 35, 37, 38, 43, 39, 40, 41, 42 >>

\* the code cells in notebook order, by position in the notebook
CodeCells ==
    << 1, 3, 4, 5, 6, 7, 8, 10, 11, 12, 14, 16, 17, 19, 20, 22, 23, 25, 26, 27,
       30, 32, 33, 34, 35, 37, 38, 39, 40, 41, 42, 43 >>

\* the cells that hold only "## Code here"
BlankCells == {16, 17, 19, 20, 22, 23, 26, 27, 39, 40, 41, 42}

\* the cells that hold only import statements
ImportCells == {1, 4, 10, 25, 32, 37}

\* the position after the last cell of the notebook
EndOfNotebook == 46

\* the code cell that a top-to-bottom run executes after cell c
NextCell(c) ==
    LET k == CHOOSE j \in DOMAIN CodeCells : CodeCells[j] = c
    IN  IF k = Len(CodeCells) THEN EndOfNotebook ELSE CodeCells[k + 1]

ImportStmts(c) ==
    CASE c = 1  -> Cell1
      [] c = 4  -> Cell4
      [] c = 10 -> Cell10
      [] c = 25 -> Cell25
      [] c = 32 -> Cell32
      [] c = 37 -> Cell37

(***************************************************************************)
(* Running statements in order against the set of bound names: how many    *)
(* run before one reads an unbound name (all of them when none does), and  *)
(* the names bound by then.                                                *)
(***************************************************************************)
RECURSIVE Walk(_, _, _)
Walk(stmts, bnd, k) ==
    IF k > Len(stmts) THEN [ran |-> Len(stmts), bound |-> bnd, err |-> FALSE]
    ELSE IF ~(stmts[k].reads \subseteq bnd)
    THEN [ran |-> k - 1, bound |-> bnd, err |-> TRUE]
    ELSE Walk(stmts, bnd \cup stmts[k].binds, k + 1)

\* the names the first k statements bind or mutate
Written(stmts, k) ==
    UNION {stmts[j].binds \cup stmts[j].mutates : j \in 1..k}

(***************************************************************************)
(* The library calls the cells make.  Coefficients and norms are integers  *)
(* counting units of 10^-9.  What an estimator computes is outside the     *)
(* notebook: a fit is a fixed but arbitrary function of the training data  *)
(* (the seed of its noise), the degree and the penalty, and only the       *)
(* number of coefficients it returns is the library's contract.            *)
(***************************************************************************)
\* the number of random draws that are told apart
NumSeeds == 2

Seeds == 1..NumSeeds

\* the number of contents of freshly allocated memory that are told apart
NumGarbage == 2

\* the decimal places a unit of the fixed-point values stands for
UnitDigits == 9

\* np.linspace(-3,3,100) and np.random.randn(100): 100 samples
SampleSize == 100

NoArray == [shape |-> << >>, seed |-> 0]

\* x = np.linspace(-3,3,100)
Linspace == [shape |-> <<SampleSize>>, seed |-> 0]

\* y = x*(x-1) + 1.2*np.random.randn(100), with the draw s
Noisy(s) == [shape |-> <<SampleSize>>, seed |-> s]

RECURSIVE Product(_)
Product(shape) == IF shape = << >> THEN 1 ELSE shape[1] * Product(Tail(shape))

\* arr.reshape(-1,1): one column, as many rows as there are elements
ReshapeColumn(arr) == [arr EXCEPT !.shape = <<Product(arr.shape), 1>>]

RECURSIVE Binomial(_, _)
Binomial(m, r) ==
    IF r = 0 THEN 1
    ELSE IF r > m - r THEN Binomial(m, m - r)
    ELSE (Binomial(m - 1, r - 1) * m) \div r

\* PolynomialFeatures(degree, include_bias).fit(X).n_output_features_: the
\* monomials of total degree <= degree in X's columns, without the constant
\* one unless include_bias
NumOutputFeatures(X2d, degree, include_bias) ==
    Binomial(X2d.shape[2] + degree, degree) - (IF include_bias THEN 0 ELSE 1)

\* the size of the coefficients an estimator returns
Magnitude(est) == IF est = "reg" THEN 4000000 ELSE 8000

\* est.coef_ after Pipeline([poly, est]).fit(X2d, yv), for the penalty tagged t
FitCoef(est, degree, include_bias, X2d, yv, t) ==
    [j \in 1..NumOutputFeatures(X2d, degree, include_bias) |->
        ((yv.seed * 7919 + degree * 1031 + t * 613 + j * 104729)
            % (2 * Magnitude(est) + 1)) - Magnitude(est)]

\* the multiple of q nearest to v, ties to the even multiple
RoundHalfEven(v, q) ==
    LET f == v \div q
        r == v - f * q
    IN  IF 2 * r > q \/ (2 * r = q /\ f % 2 = 1) THEN (f + 1) * q ELSE f * q

\* np.round(values, decimals)
NpRound(values, decimals) ==
    [j \in DOMAIN values |-> RoundHalfEven(values[j], 10 ^ (UnitDigits - decimals))]

\* np.round(array, decimals) of a two-dimensional array
NpRound2(arr, decimals) == [r \in DOMAIN arr |-> NpRound(arr[r], decimals)]

\* an allocation that does not clear the array
NpOnes(rows, cols) == [r \in 1..rows |-> [c \in 1..cols |-> 1]]

\* np.zeros((rows, cols))
NpZeros(rows, cols) == [r \in 1..rows |-> [c \in 1..cols |-> 0]]

\* np.empty with the two dimensions of the shape taken in the other order
NpEmptyTransposed(rows, cols, junk) ==
    [r \in 1..cols |-> [c \in 1..rows |-> junk]]

\* np.empty((rows, cols)): whatever the memory held
NpEmpty(rows, cols, junk) == [r \in 1..rows |-> [c \in 1..cols |-> junk]]

NumRows(arr) == Len(arr)

NumCols(arr) == IF arr = << >> THEN 0 ELSE Len(arr[1])

\* arr[row, :stop] = values (0-based row, Python slice): the error numpy
\* raises, or "ok" with the array after the assignment and the slice's width
SliceAssign(arr, row, stop, values) ==
    LET r     == IF row < 0 THEN row + NumRows(arr) ELSE row
        width == IF stop < NumCols(arr) THEN stop ELSE NumCols(arr)
    IN  IF r < 0 \/ r >= NumRows(arr)
        THEN [err |-> "IndexError", arr |-> arr, width |-> 0]
        ELSE IF Len(values) # width /\ Len(values) # 1
        THEN [err |-> "ValueError", arr |-> arr, width |-> width]
        ELSE [err |-> "ok", width |-> width,
              arr |-> [arr EXCEPT ![r + 1] =
                        [c \in 1..NumCols(arr) |->
                            IF c <= width
                            THEN (IF Len(values) = 1 THEN values[1] ELSE values[c])
                            ELSE arr[r + 1][c]]]]

\* a range that takes its upper end in
RangeLenInclusive(lo, hi) == IF hi >= lo THEN hi - lo + 1 ELSE 0

\* len(range(lo, hi))
RangeLen(lo, hi) == IF hi > lo THEN hi - lo ELSE 0

\* the largest s with s * s <= v
RECURSIVE ISqrt(_, _, _)
ISqrt(v, lo, hi) ==
    IF lo = hi THEN lo
    ELSE LET mid == (lo + hi + 1) \div 2
         IN  IF mid * mid <= v THEN ISqrt(v, mid, hi) ELSE ISqrt(v, lo, mid - 1)

RECURSIVE SumSquares(_)
SumSquares(values) ==
    IF values = << >> THEN 0 ELSE values[1] * values[1] + SumSquares(Tail(values))

\* np.power(np.sqrt(np.sum(np.power(coefs,2))),2), the root kept to the unit
NormSquared(coefs) ==
    LET root == ISqrt(SumSquares(coefs), 0, 46340) IN root * root

(***************************************************************************)
(* The state of a run.                                                     *)
(***************************************************************************)
VARIABLES
    pc,           \* the code cell that runs next, EndOfNotebook after the last
    status,       \* "ok", or the exception that stopped the run
    started,      \* the for loop of the cell at pc has been entered
    k,            \* the passes through that loop's body begun so far
    span,         \* the number of items of the loop's iterable
    bound,        \* the notebook-level names that are bound
    writers,      \* per name, the cells that have bound or mutated it
    executed,     \* the cells that have run to completion
    n, x, y, X, df, coef_holder, pipe, alphas, norms, alpha,
    ridge_coefs, lasso_coefs,
    raw,          \* per np.empty array, the (row, column) pairs never assigned
    fitlog,       \* the calls of fit, in order
    stores,       \* the slice assignments into the coefficient arrays, in order
    calls,        \* the uses of the helper module generate, in order
    shown         \* the tables displayed, in order

ctl == <<pc, status, started, k, span>>

nms == <<bound, writers, executed>>

data ==
    <<n, x, y, X, df, coef_holder, pipe, alphas, norms, alpha, ridge_coefs,
      lasso_coefs, raw>>

hist == <<fitlog, stores, calls, shown>>

vars == <<ctl, nms, data, hist>>

\* a Pipeline of PolynomialFeatures(degree, include_bias) and an estimator
NewPipe(degree, include_bias, est, penalty) ==
    [degree |-> degree, include_bias |-> include_bias, est |-> est,
     penalty |-> penalty, fitted |-> FALSE, coef |-> << >>]

NoPipe == NewPipe(0, FALSE, "none", DZero)

\* the record of a call of fit on the pipeline made, in pass number item of
\* the loop of cell c, with the penalty read at position pen of its list
FitCall(c, made, item, pen, fits) ==
    [cell |-> c, est |-> made.est, degree |-> made.degree, item |-> item,
     pen |-> pen, ok |-> fits]

\* the record of the assignment put of the coefficients coef of the pipeline
\* made to row number row of the array named arr
Store(c, arr, made, item, pen, row, put, coef) ==
    [cell |-> c, arr |-> arr, est |-> made.est, degree |-> made.degree,
     item |-> item, pen |-> pen, row |-> row, width |-> put.width,
     nvals |-> Len(coef), err |-> put.err]

Init ==
    /\ pc = CodeCells[1]
    /\ status = "ok"
    /\ started = FALSE
    /\ k = 0
    /\ span = 0
    /\ bound = {}
    /\ writers = [v \in Names |-> {}]
    /\ executed = {}
    /\ n = 0
    /\ x = NoArray
    /\ y = NoArray
    /\ X = NoArray
    /\ df = NoArray
    /\ coef_holder = << >>
    /\ pipe = NoPipe
    /\ alphas = << >>
    /\ norms = << >>
    /\ alpha = << >>
    /\ ridge_coefs = << >>
    /\ lasso_coefs = << >>
    /\ raw = [ridge_coefs |-> {}, lasso_coefs |-> {}]
    /\ fitlog = << >>
    /\ stores = << >>
    /\ calls = << >>
    /\ shown = << >>

\* cell c is the one running, and nothing has stopped the run
Running(c) == pc = c /\ status = "ok"

NoteWrites(c, names) ==
    [v \in Names |-> IF v \in names THEN writers[v] \cup {c} ELSE writers[v]]

\* the names after the statements stmts of cell c have all run
Bind(c, stmts) ==
    /\ bound' = Walk(stmts, bound, 1).bound
    /\ writers' = NoteWrites(c, Written(stmts, Len(stmts)))

\* cell c has run to its end: the kernel moves to the next code cell
Finish(c) ==
    /\ pc' = NextCell(c)
    /\ status' = "ok"
    /\ started' = FALSE
    /\ k' = 0
    /\ span' = 0
    /\ executed' = executed \cup {c}

\* an exception ends the cell and the run, keeping what ran before it
Raise(c, kind, stmts, ran) ==
    /\ status' = kind
    /\ bound' = Walk(SubSeq(stmts, 1, ran), bound, 1).bound
    /\ writers' = NoteWrites(c, Written(stmts, ran))
    /\ UNCHANGED <<pc, started, k, span, executed>>

\* a statement of stmts reads a name that is not bound
NameError(stmts) == Walk(stmts, bound, 1).err

RaiseNameError(c, stmts) ==
    /\ Raise(c, "NameError", stmts, Walk(stmts, bound, 1).ran)
    /\ UNCHANGED <<data, hist>>

\* a loop body that catches the exception of fit and goes on with the loop
FitFailsSwallowed(c, made, ran) ==
    /\ status' = "ok"
    /\ fitlog' = fitlog \o made
    /\ Bind(c, ran)

\* a call of fit raises in a loop body that has no try statement: the
\* exception leaves the loop and the cell.  made are the calls of fit of
\* this pass, the last one the failed one; ran are the statements before it
FitFails(c, made, ran) ==
    /\ status' = "FitError"
    /\ fitlog' = fitlog \o made
    /\ Bind(c, ran)

(***************************************************************************)
(* The cells, one action per straight-line cell and three per loop cell    *)
(* (the statements up to the for statement, one pass through the body,     *)
(* the end of the loop).                                                   *)
(***************************************************************************)
\* cells 1, 4, 10, 25, 32, 37: import statements
ImportCell(c) ==
    /\ Running(c)
    /\ IF NameError(ImportStmts(c))
       THEN RaiseNameError(c, ImportStmts(c))
       ELSE /\ Bind(c, ImportStmts(c))
            /\ Finish(c)
            /\ calls' = IF c = 37 THEN Append(calls, "import") ELSE calls
            /\ UNCHANGED <<data, fitlog, stores, shown>>

\* cells 3 and 30: x and y are (re)bound to fresh samples
GenerateData(c) ==
    LET stmts == IF c = 3 THEN Cell3 ELSE DataStmts
    IN  /\ Running(c)
        /\ IF NameError(stmts)
           THEN RaiseNameError(c, stmts)
           ELSE /\ \E s \in Seeds : y' = Noisy(s)
                /\ x' = Linspace
                /\ Bind(c, stmts)
                /\ Finish(c)
                /\ UNCHANGED <<n, X, df, coef_holder, pipe, alphas, norms, alpha,
                               ridge_coefs, lasso_coefs, raw, hist>>

\* the degree of the largest polynomial of cell 6
n_cell5 == 26

\* cell 5: n = 26; coef_holder = np.zeros((n,n))
Cell5Alloc ==
    /\ Running(5)
    /\ IF NameError(Cell5)
       THEN RaiseNameError(5, Cell5)
       ELSE /\ n' = n_cell5
            /\ coef_holder' = NpZeros(n', n')
            /\ Bind(5, Cell5)
            /\ Finish(5)
            /\ UNCHANGED <<x, y, X, df, pipe, alphas, norms, alpha, ridge_coefs,
                           lasso_coefs, raw, hist>>

\* cell 6: for i in range(1,n+1) is entered
Cell6Start ==
    /\ Running(6) /\ ~started
    /\ IF NameError(Cell6Head)
       THEN RaiseNameError(6, Cell6Head)
       ELSE /\ started' = TRUE
            /\ k' = 0
            /\ span' = RangeLen(1, n + 1)
            /\ Bind(6, Cell6Head)
            /\ UNCHANGED <<pc, status, executed, data, hist>>

\* the poly step of cell 6 with include_bias left at its default
Cell6IncludeBiasDefault == TRUE

\* what the poly step of cell 6 passes for include_bias
Cell6IncludeBias == FALSE

\* the decimals cell 6 rounds the coefficients to
Cell6Decimals == 3

\* cell 6: one pass through the body, for i = range(1,n+1)[k]
Cell6Iter ==
    /\ Running(6) /\ started /\ k < span
    /\ IF NameError(Cell6Body)
       THEN RaiseNameError(6, Cell6Body)
       ELSE LET i    == 1 + k
                made == NewPipe(i, Cell6IncludeBias, "reg", DZero)
                coef == FitCoef(made.est, made.degree, made.include_bias,
                                ReshapeColumn(x), y, 0)
                put  == SliceAssign(coef_holder, i - 1, i,
                                    NpRound(coef, Cell6Decimals))
            IN  \E fits \in BOOLEAN :
                  /\ k' = k + 1
                  /\ UNCHANGED <<pc, started, span, executed>>
                  /\ UNCHANGED <<n, x, y, X, df, alphas, norms, alpha, ridge_coefs,
                                 lasso_coefs, raw, calls, shown>>
                  /\ IF ~fits
                     THEN /\ FitFails(6, <<FitCall(6, made, k + 1, 0, FALSE)>>,
                                       SubSeq(Cell6Body, 1, 2))
                          /\ pipe' = made
                          /\ UNCHANGED <<coef_holder, stores>>
                     ELSE /\ fitlog' = Append(fitlog,
                                             FitCall(6, made, k + 1, 0, TRUE))
                          /\ pipe' = [made EXCEPT !.fitted = TRUE, !.coef = coef]
                          /\ stores' = Append(stores,
                                Store(6, "coef_holder", made, k + 1, 0, i - 1,
                                      put, coef))
                          /\ coef_holder' = put.arr
                          /\ status' = put.err
                          /\ IF put.err = "ok"
                             THEN Bind(6, Cell6Body)
                             ELSE Bind(6, SubSeq(Cell6Body, 1, 3))

\* cell 6: range(1,n+1) is exhausted
Cell6End ==
    /\ Running(6) /\ started /\ k = span
    /\ Finish(6)
    /\ UNCHANGED <<bound, writers, data, hist>>

\* pd.DataFrame(values, columns = ..., index = ...): pandas raises ValueError
\* unless there is a label for every column and every row
FrameError(values, columns, index) ==
    Len(columns) # NumCols(values) \/ Len(index) # NumRows(values)

\* cell 7: the coefficient estimates as a dataframe
Cell7Show ==
    /\ Running(7)
    /\ IF NameError(Cell7)
       THEN RaiseNameError(7, Cell7)
       ELSE LET columns == [j \in 1..RangeLen(1, n + 1) |-> "x^" \o ToString(j)]
                index   == [j \in 1..RangeLen(1, n + 1) |->
                               ToString(j) \o "_deg_poly"]
            IN  IF FrameError(coef_holder, columns, index)
                THEN /\ Raise(7, "ValueError", Cell7, 0)
                     /\ UNCHANGED <<data, hist>>
                ELSE /\ shown' = Append(shown,
                            [cell |-> 7, columns |-> columns, index |-> index,
                             values |-> coef_holder, raw |-> {}])
                     /\ Bind(7, Cell7)
                     /\ Finish(7)
                     /\ UNCHANGED <<data, fitlog, stores, calls>>

\* cell 8: the plot of the last fit of cell 6
Cell8Plot ==
    /\ Running(8)
    /\ IF NameError(Cell8)
       THEN RaiseNameError(8, Cell8)
       ELSE /\ Bind(8, Cell8)
            /\ Finish(8)
            /\ UNCHANGED <<data, hist>>

\* the degree of the ridge fits of cell 11
RidgeDegree == 30

\* the stop argument of np.arange in cell 11, .001
Cell11Stop == DLit(1, 1000)

\* cell 11: alphas = np.arange(0,.001,.000001)
Cell11Alphas == ArangeValues(DFromInt(0), Cell11Stop, DLit(1, 1000000))

\* cell 11: alphas and norms are bound and for a in alphas is entered
Cell11Start ==
    /\ Running(11) /\ ~started
    /\ IF NameError(Cell11Head)
       THEN RaiseNameError(11, Cell11Head)
       ELSE /\ alphas' = Cell11Alphas
            /\ norms' = << >>
            /\ started' = TRUE
            /\ k' = 0
            /\ span' = Len(alphas')
            /\ Bind(11, Cell11Head)
            /\ UNCHANGED <<pc, status, executed, hist>>
            /\ UNCHANGED <<n, x, y, X, df, coef_holder, pipe, alpha, ridge_coefs,
                           lasso_coefs, raw>>

\* cell 11: one pass through the body, for a = alphas[k]
Cell11Iter ==
    /\ Running(11) /\ started /\ k < span
    /\ IF NameError(Cell11Body)
       THEN RaiseNameError(11, Cell11Body)
       ELSE LET a    == alphas[k + 1]
                made == NewPipe(RidgeDegree, FALSE, "ridge", a)
                coef == FitCoef(made.est, made.degree, made.include_bias,
                                ReshapeColumn(x), y, k)
            IN  \E fits \in BOOLEAN :
                  /\ k' = k + 1
                  /\ UNCHANGED <<pc, started, span, executed>>
                  /\ UNCHANGED <<n, x, y, X, df, coef_holder, alphas, alpha,
                                 ridge_coefs, lasso_coefs, raw, stores, calls,
                                 shown>>
                  /\ IF ~fits
                     THEN /\ FitFails(11,
                                       <<FitCall(11, made, k + 1, k + 1, FALSE)>>,
                                       SubSeq(Cell11Body, 1, 2))
                          /\ pipe' = made
                          /\ UNCHANGED norms
                     ELSE /\ status' = "ok"
                          /\ fitlog' = Append(fitlog,
                                             FitCall(11, made, k + 1, k + 1, TRUE))
                          /\ pipe' = [made EXCEPT !.fitted = TRUE, !.coef = coef]
                          /\ norms' = Append(norms, NormSquared(coef))
                          /\ Bind(11, Cell11Body)

\* cell 11: alphas is exhausted
Cell11End ==
    /\ Running(11) /\ started /\ k = span
    /\ Finish(11)
    /\ UNCHANGED <<bound, writers, data, hist>>

\* cell 12: plt.plot(alphas,norms), which raises ValueError unless the two
\* have the same length
Cell12Plot ==
    /\ Running(12)
    /\ IF NameError(Cell12)
       THEN RaiseNameError(12, Cell12)
       ELSE IF Len(alphas) # Len(norms)
       THEN /\ Raise(12, "ValueError", Cell12, 0)
            /\ UNCHANGED <<data, hist>>
       ELSE /\ Bind(12, Cell12)
            /\ Finish(12)
            /\ UNCHANGED <<data, hist>>

\* cell 14: the dataframe of age, distance and tiredness
Cell14Frame ==
    /\ Running(14)
    /\ IF NameError(Cell14)
       THEN RaiseNameError(14, Cell14)
       ELSE /\ \E s \in Seeds : df' = [shape |-> <<SampleSize, 3>>, seed |-> s]
            /\ Bind(14, Cell14)
            /\ Finish(14)
            /\ UNCHANGED <<n, x, y, X, coef_holder, pipe, alphas, norms, alpha,
                           ridge_coefs, lasso_coefs, raw, hist>>

\* cells 16, 17, 19, 20, 22, 23, 26, 27, 39-42: only the comment "## Code here"
ExecBlank(c) ==
    /\ Running(c)
    /\ IF NameError(BlankStmts)
       THEN RaiseNameError(c, BlankStmts)
       ELSE /\ Bind(c, BlankStmts)
            /\ Finish(c)
            /\ UNCHANGED <<data, hist>>

\* a number written in the source: an int, or a float num / den
IntLit(v) == [int |-> TRUE, num |-> v, den |-> 1]

FloatLit(num, den) == [int |-> FALSE, num |-> num, den |-> den]

\* cell 33: alpha = [0.00001,0.0001,0.001,0.01,0.1,1,10,100,1000]
Cell33Alpha ==
    << FloatLit(1, 100000), FloatLit(1, 10000), FloatLit(1, 1000),
       FloatLit(1, 100), FloatLit(1, 10), IntLit(1), IntLit(10), IntLit(100),
       IntLit(1000) >>

\* the degree of the fits of cell 33, which rebinds n
n_cell33 == 10

\* the decimals cells 34 and 35 round the coefficients to
TableDecimals == 8

RECURSIVE Log10(_)
Log10(v) == IF v < 10 THEN 0 ELSE 1 + Log10(v \div 10)

RECURSIVE Zeros(_)
Zeros(d) == IF d = 0 THEN "" ELSE "0" \o Zeros(d - 1)

\* str(v) for an int, and for a float 1 / 10^d: Python writes a float in
\* exponent form once its decimal exponent is below -4
PyStr(v) ==
    IF v.int THEN ToString(v.num)
    ELSE LET d == Log10(v.den)
         IN  IF d > 4
             THEN "1e-" \o (IF d < 10 THEN "0" ELSE "") \o ToString(d)
             ELSE "0." \o Zeros(d - 1) \o "1"

\* what a cell of freshly allocated memory may hold
Junk(j) == 1111 * j

Positions(arr) == (0..(NumRows(arr) - 1)) \X (0..(NumCols(arr) - 1))

\* cell 33: alpha, n and the two arrays are bound and the loop is entered
Cell33Start ==
    /\ Running(33) /\ ~started
    /\ IF NameError(Cell33Head)
       THEN RaiseNameError(33, Cell33Head)
       ELSE /\ alpha' = Cell33Alpha
            /\ n' = n_cell33
            /\ \E j1, j2 \in 1..NumGarbage :
                  /\ ridge_coefs' = NpEmpty(Len(alpha'), n', Junk(j1))
                  /\ lasso_coefs' = NpEmpty(Len(alpha'), n', Junk(j2))
            /\ raw' = [ridge_coefs |-> Positions(ridge_coefs'),
                       lasso_coefs |-> Positions(lasso_coefs')]
            /\ started' = TRUE
            /\ k' = 0
            /\ span' = RangeLen(0, Len(alpha'))
            /\ Bind(33, Cell33Head)
            /\ UNCHANGED <<pc, status, executed, hist>>
            /\ UNCHANGED <<x, y, X, df, coef_holder, pipe, alphas, norms>>

\* the position in alpha (0-based) of the penalty of the ridge pipeline of
\* pass i of cell 33
RidgePenalty(i) == i

\* the same for the lasso pipeline
LassoPenalty(i) == i

\* every pass assigning the first row
Cell33RowStuck(i) == 0

\* the row (0-based) that pass i of cell 33 assigns
Cell33Row(i) == i

\* cell 33: one pass through the body, for i = range(len(alpha))[k]
Cell33Iter ==
    /\ Running(33) /\ started /\ k < span
    /\ IF NameError(Cell33Body)
       THEN RaiseNameError(33, Cell33Body)
       ELSE LET i     == k
                rpipe == NewPipe(n, FALSE, "ridge", alpha[RidgePenalty(i) + 1])
                lpipe == NewPipe(n, FALSE, "lasso", alpha[LassoPenalty(i) + 1])
                rcoef == FitCoef(rpipe.est, rpipe.degree, rpipe.include_bias,
                                 ReshapeColumn(x), y, RidgePenalty(i))
                lcoef == FitCoef(lpipe.est, lpipe.degree, lpipe.include_bias,
                                 ReshapeColumn(x), y, LassoPenalty(i))
                rput  == SliceAssign(ridge_coefs, Cell33Row(i),
                                     NumCols(ridge_coefs), rcoef)
                lput  == SliceAssign(lasso_coefs, Cell33Row(i),
                                     NumCols(lasso_coefs), lcoef)
                rcall(fits) == FitCall(33, rpipe, k + 1, RidgePenalty(i) + 1, fits)
                lcall(fits) == FitCall(33, lpipe, k + 1, LassoPenalty(i) + 1, fits)
                rstore == Store(33, "ridge_coefs", rpipe, k + 1,
                                RidgePenalty(i) + 1, Cell33Row(i), rput, rcoef)
                lstore == Store(33, "lasso_coefs", lpipe, k + 1,
                                LassoPenalty(i) + 1, Cell33Row(i), lput, lcoef)
                rowOf(put) == IF put.err = "ok"
                              THEN {Cell33Row(i)} \X (0..(put.width - 1)) ELSE {}
            IN  \E outcome \in {"fits", "ridge fails", "lasso fails"} :
                  /\ k' = k + 1
                  /\ UNCHANGED <<pc, started, span, executed>>
                  /\ UNCHANGED <<n, x, y, X, df, coef_holder, pipe, alphas, norms,
                                 alpha, calls, shown>>
                  /\ CASE outcome = "ridge fails" ->
                            /\ FitFails(33, <<rcall(FALSE)>>,
                                        SubSeq(Cell33Body, 1, 3))
                            /\ UNCHANGED <<ridge_coefs, lasso_coefs, raw, stores>>
                       [] outcome = "lasso fails" ->
                            /\ FitFails(33, <<rcall(TRUE), lcall(FALSE)>>,
                                        SubSeq(Cell33Body, 1, 4))
                            /\ UNCHANGED <<ridge_coefs, lasso_coefs, raw, stores>>
                       [] outcome = "fits" ->
                            /\ fitlog' = fitlog \o <<rcall(TRUE), lcall(TRUE)>>
                            /\ ridge_coefs' = rput.arr
                            /\ IF rput.err # "ok"
                               THEN /\ status' = rput.err
                                    /\ stores' = Append(stores, rstore)
                                    /\ raw' = raw
                                    /\ Bind(33, SubSeq(Cell33Body, 1, 5))
                                    /\ UNCHANGED lasso_coefs
                               ELSE /\ status' = lput.err
                                    /\ stores' = stores \o <<rstore, lstore>>
                                    /\ lasso_coefs' = lput.arr
                                    /\ raw' = [ridge_coefs |->
                                                  raw.ridge_coefs \ rowOf(rput),
                                               lasso_coefs |->
                                                  raw.lasso_coefs \ rowOf(lput)]
                                    /\ IF lput.err = "ok"
                                       THEN Bind(33, Cell33Body)
                                       ELSE Bind(33, SubSeq(Cell33Body, 1, 6))

\* cell 33: range(len(alpha)) is exhausted
Cell33End ==
    /\ Running(33) /\ started /\ k = span
    /\ Finish(33)
    /\ UNCHANGED <<bound, writers, data, hist>>

\* cells 34 and 35: the ridge and the lasso coefficients as dataframes
ShowCoefs(c) ==
    LET stmts == IF c = 34 THEN Cell34 ELSE Cell35
        arr   == IF c = 34 THEN ridge_coefs ELSE lasso_coefs
        stale == IF c = 34 THEN raw.ridge_coefs ELSE raw.lasso_coefs
    IN  /\ Running(c)
        /\ IF NameError(stmts)
           THEN RaiseNameError(c, stmts)
           ELSE LET columns == [j \in 1..RangeLen(1, n + 1) |-> "x^" \o ToString(j)]
                    index   == [j \in DOMAIN alpha |-> "alpha=" \o PyStr(alpha[j])]
                IN  IF FrameError(arr, columns, index)
                    THEN /\ Raise(c, "ValueError", stmts, 0)
                         /\ UNCHANGED <<data, hist>>
                    ELSE /\ shown' = Append(shown,
                                [cell |-> c, columns |-> columns, index |-> index,
                                 values |-> NpRound2(arr, TableDecimals),
                                 raw |-> stale])
                         /\ Bind(c, stmts)
                         /\ Finish(c)
                         /\ UNCHANGED <<data, fitlog, stores, calls>>

\* g.get_data(): a feature matrix and a response, the draw s of the helper
GetData(s) ==
    [X |-> [shape |-> <<SampleSize, 0>>, seed |-> s],
     y |-> [shape |-> <<SampleSize>>, seed |-> s]]

\* cell 38: X,y = g.get_data()
Cell38GetData ==
    /\ Running(38)
    /\ IF NameError(Cell38)
       THEN RaiseNameError(38, Cell38)
       ELSE /\ \E s \in Seeds : X' = GetData(s).X /\ y' = GetData(s).y
            /\ calls' = Append(calls, "get_data")
            /\ Bind(38, Cell38)
            /\ Finish(38)
            /\ UNCHANGED <<n, x, df, coef_holder, pipe, alphas, norms, alpha,
                           ridge_coefs, lasso_coefs, raw, fitlog, stores, shown>>

\* cell 43: g.give_how_generated()
Cell43Formula ==
    /\ Running(43)
    /\ IF NameError(Cell43)
       THEN RaiseNameError(43, Cell43)
       ELSE /\ calls' = Append(calls, "give_how_generated")
            /\ Bind(43, Cell43)
            /\ Finish(43)
            /\ UNCHANGED <<data, fitlog, stores, shown>>

Next ==
    \/ \E c \in ImportCells : ImportCell(c)
    \/ \E c \in {3, 30} : GenerateData(c)
    \/ Cell5Alloc
    \/ Cell6Start
    \/ Cell6Iter
    \/ Cell6End
    \/ Cell7Show
    \/ Cell8Plot
    \/ Cell11Start
    \/ Cell11Iter
    \/ Cell11End
    \/ Cell12Plot
    \/ Cell14Frame
    \/ \E c \in BlankCells : ExecBlank(c)
    \/ Cell33Start
    \/ Cell33Iter
    \/ Cell33End
    \/ \E c \in {34, 35} : ShowCoefs(c)
    \/ Cell38GetData
    \/ Cell43Formula

Spec == Init /\ [][Next]_vars

(***************************************************************************)
(* The properties of the run.                                              *)
(***************************************************************************)
\* the entries of a log that cell c made
From(log, c) == SelectSeq(log, LAMBDA e : e.cell = c)

\* the entries of the log of assignments that went into the array named arr
Into(log, arr) == SelectSeq(log, LAMBDA e : e.arr = arr)

Last(log) == log[Len(log)]

\* C1: in the degree loop the fit of degree i yields exactly i coefficients,
\* which are assigned to exactly the i slots coef_holder[i-1, 0..i-1], for
\* every i in 1..26: the assignment never has a length mismatch (ValueError)
\* and never leaves the 26-by-26 array (IndexError).
C1_ShapeConsistency ==
    /\ pc = 6 => status \notin {"ValueError", "IndexError"}
    /\ "coef_holder" \in bound =>
          NumRows(coef_holder) = n_cell5 /\ NumCols(coef_holder) = n_cell5
    /\ (pipe.est = "reg" /\ pipe.fitted) => Len(pipe.coef) = pipe.degree
    /\ \A j \in 1..Len(stores) :
          stores[j].cell = 6 =>
             /\ stores[j].err = "ok"
             /\ stores[j].item \in 1..n_cell5
             /\ stores[j].degree = stores[j].item
             /\ stores[j].nvals = stores[j].item
             /\ stores[j].width = stores[j].item
             /\ stores[j].row = stores[j].item - 1
             /\ stores[j].row < NumRows(coef_holder)
             /\ stores[j].width <= NumCols(coef_holder)

\* the degree loop has stored the coefficients of all 26 degrees
C1_Witness ==
    /\ pc = 7
    /\ Len(From(stores, 6)) = n_cell5
    /\ Last(From(stores, 6)).nvals = n_cell5

\* the names that the code cells read
ReadNames ==
    { "np", "pd", "plt", "x", "y", "n", "coef_holder", "pipe", "Pipeline",
      "PolynomialFeatures", "LinearRegression", "Ridge", "Lasso", "alphas",
      "norms", "alpha", "ridge_coefs", "lasso_coefs", "g" }

\* C2: the code cells run one at a time in notebook order, each to its end
\* before the next starts, and no cell reads a name that an earlier cell, or
\* an earlier statement of the same cell, has not bound.
C2_NoUnboundRead ==
    /\ status # "NameError"
    /\ executed = {CodeCells[j] : j \in {h \in DOMAIN CodeCells : CodeCells[h] < pc}}
    /\ started => pc \in {6, 11, 33}

\* the whole notebook has run, with every name the cells read bound
C2_Witness ==
    /\ pc = EndOfNotebook
    /\ status = "ok"
    /\ ReadNames \subseteq bound

\* the names the claim about global mutable state lists
StateNames ==
    {"x", "y", "n", "pipe", "coef_holder", "norms", "ridge_coefs", "lasso_coefs"}

\* C3 as stated: no notebook-level name or array bound by one code cell is
\* rebound or mutated by a different, later code cell.
C3_NoGlobalMutableState ==
    \A v \in StateNames : Cardinality(writers[v]) <= 1

\* C3, amended: norms, ridge_coefs and lasso_coefs are written only by the
\* cell that binds them; the other names are notebook-level mutable state,
\* written by no cell but these: x by cells 3 and 30, y by cells 3, 30 and
\* 38, n by cells 5 and 33, pipe by cells 6 and 11, coef_holder by cells 5
\* and 6.
C3_MutableStateAmended ==
    /\ writers["norms"] \subseteq {11}
    /\ writers["ridge_coefs"] \subseteq {33}
    /\ writers["lasso_coefs"] \subseteq {33}
    /\ writers["x"] \subseteq {3, 30}
    /\ writers["y"] \subseteq {3, 30, 38}
    /\ writers["n"] \subseteq {5, 33}
    /\ writers["pipe"] \subseteq {6, 11}
    /\ writers["coef_holder"] \subseteq {5, 6}
    /\ pc = EndOfNotebook =>
          /\ writers["norms"] = {11}
          /\ writers["ridge_coefs"] = {33}
          /\ writers["lasso_coefs"] = {33}
          /\ writers["x"] = {3, 30}
          /\ writers["y"] = {3, 30, 38}
          /\ writers["n"] = {5, 33}
          /\ writers["pipe"] = {6, 11}
          /\ writers["coef_holder"] = {5, 6}

\* the run is over and y has been bound by three cells
C3_Witness ==
    /\ pc = EndOfNotebook
    /\ writers["y"] = {3, 30, 38}
    /\ writers["ridge_coefs"] = {33}

\* the last call of fit in the log failed
FitFailed(log) == log # << >> /\ ~Last(log).ok

\* C4: when a call of fit fails in pass k of a sweep loop, the cell stops
\* there: the failed fit is not attempted again, no later pass runs, and
\* every result stored by the passes before keeps its value.
C4_NoRecovery ==
    [][ /\ FitFailed(fitlog) => UNCHANGED vars
        /\ (fitlog' # fitlog /\ FitFailed(fitlog')) =>
              /\ status' # "ok"
              /\ pc' = pc /\ pc \in {6, 11, 33}
              /\ UNCHANGED <<coef_holder, norms, ridge_coefs, lasso_coefs,
                             stores, executed>> ]_vars

\* the lasso fit of the fifth pass of cell 33 has failed, after four passes
\* stored their rows
C4_Witness ==
    /\ pc = 33
    /\ status = "FitError"
    /\ k = 5
    /\ FitFailed(fitlog)
    /\ Last(fitlog).est = "lasso"
    /\ Len(From(stores, 33)) = 8

\* C5: the degree loop fits the degrees 1, 2, ..., n in increasing order,
\* each exactly once, and writes row i-1 of coef_holder exactly once; it
\* ends, because every pass is one of the 26 items of range(1,n+1) and the
\* loop can always take its next step; and when the cell has completed it
\* has made exactly n passes.
C5_DegreeLoop ==
    /\ \A j \in 1..Len(From(fitlog, 6)) :
          From(fitlog, 6)[j].degree = j /\ From(fitlog, 6)[j].item = j
    /\ \A j \in 1..Len(From(stores, 6)) :
          From(stores, 6)[j].row = j - 1 /\ From(stores, 6)[j].degree = j
    /\ Len(From(fitlog, 6)) <= n_cell5
    /\ (pc = 6 /\ started) =>
          span = n /\ n = n_cell5 /\ k <= span /\ Len(From(fitlog, 6)) = k
    /\ Running(6) => ENABLED (Cell6Start \/ Cell6Iter \/ Cell6End)
    /\ 6 \in executed =>
          Len(From(fitlog, 6)) = n_cell5 /\ Len(From(stores, 6)) = n_cell5

\* cell 6 has completed after 26 passes
C5_Witness ==
    /\ pc = 7
    /\ 6 \in executed
    /\ Len(From(fitlog, 6)) = n_cell5
    /\ Last(From(stores, 6)).row = n_cell5 - 1

\* C6: the ridge sweep processes the alphas in strictly increasing order,
\* starting at 0 and staying below 0.001; at every point of the loop
\* len(norms) is the number of alphas already processed, norms[k] comes from
\* the fit with alphas[k], and len(norms) = len(alphas) when cell 12 plots
\* the two against each other.
C6_RidgeSweep ==
    /\ "alphas" \in bound =>
          /\ alphas[1] = DZero
          /\ \A j \in 1..(Len(alphas) - 1) : DCmp(alphas[j], alphas[j + 1]) < 0
          /\ \A j \in 1..Len(alphas) : DCmp(alphas[j], Cell11Stop) < 0
    /\ (pc = 11 /\ started /\ status = "ok") => Len(norms) = k
    /\ \A j \in 1..Len(From(fitlog, 11)) : From(fitlog, 11)[j].pen = j
    /\ 11 \in executed => Len(norms) = Len(alphas)

\* C7: running a cell that holds only the comment "## Code here" changes no
\* notebook-level binding and no array.
C7_BlankCellNoEffect ==
    [][(pc \in BlankCells /\ pc' # pc) => UNCHANGED <<bound, writers, data>>]_vars

\* the first exercise cell has run, with the names of the cells before bound
C7_Witness ==
    /\ pc = 17
    /\ 16 \in executed
    /\ {"df", "norms", "coef_holder"} \subseteq bound

\* the uses of the helper module in a complete run
HelperOrder == <<"import", "get_data", "give_how_generated">>

\* the exercise cells between the call of get_data and the printed formula
PracticeCells == {39, 40, 41, 42}

\* C8: the helper module is imported before either of its functions is
\* called, get_data() is called exactly once and before
\* give_how_generated(), and the formula is printed only after the four
\* exercise cells of the section have run.
C8_HelperOrdered ==
    /\ Len(calls) <= Len(HelperOrder)
    /\ \A j \in 1..Len(calls) : calls[j] = HelperOrder[j]
    /\ "g" \in bound <=> calls # << >>
    /\ Len(calls) = 3 => PracticeCells \subseteq executed
    /\ (PracticeCells \cap executed # {}) => Len(calls) >= 2
    /\ pc = EndOfNotebook => calls = HelperOrder

\* the run is over and the formula has been printed
C8_Witness ==
    /\ pc = EndOfNotebook
    /\ calls = HelperOrder
    /\ PracticeCells \subseteq executed

\* the labels the two tables of cells 34 and 35 give their rows
AlphaLabels ==
    << "alpha=1e-05", "alpha=0.0001", "alpha=0.001", "alpha=0.01", "alpha=0.1",
       "alpha=1", "alpha=10", "alpha=100", "alpha=1000" >>

\* the assignments into the array named arr so far fill rows 0, 1, ... in
\* order, each once and whole, from fits of est with degree n = 10 and the
\* penalty alpha[row]; the rows not reached yet are all that is unassigned
RowsInOrder(arr, est, left, values) ==
    /\ \A j \in 1..Len(Into(stores, arr)) :
          /\ Into(stores, arr)[j].row = j - 1
          /\ Into(stores, arr)[j].pen = j
          /\ Into(stores, arr)[j].est = est
          /\ Into(stores, arr)[j].degree = n_cell33
          /\ Into(stores, arr)[j].nvals = n_cell33
          /\ Into(stores, arr)[j].width = n_cell33
          /\ Into(stores, arr)[j].err = "ok"
    /\ left = {p \in Positions(values) : p[1] >= Len(Into(stores, arr))}
    /\ 33 \in executed => Len(Into(stores, arr)) = Len(alpha)

\* C9: ridge_coefs and lasso_coefs come uninitialised from np.empty, and the
\* loop assigns every row of both before the tables are displayed: row i of
\* each is written exactly once, both from fits with alpha[i] and degree n,
\* no uninitialised entry is displayed, and row i of both tables carries the
\* label 'alpha=' + str(alpha[i]).
C9_RowsAssigned ==
    /\ RowsInOrder("ridge_coefs", "ridge", raw.ridge_coefs, ridge_coefs)
    /\ RowsInOrder("lasso_coefs", "lasso", raw.lasso_coefs, lasso_coefs)
    /\ Len(Into(stores, "lasso_coefs")) <= Len(Into(stores, "ridge_coefs"))
    /\ \A t \in 1..Len(shown) :
          shown[t].cell \in {34, 35} =>
             /\ shown[t].raw = {}
             /\ shown[t].index = AlphaLabels
             /\ NumRows(shown[t].values) = Len(alpha)
             /\ \A j \in 1..Len(alpha) :
                   shown[t].index[j] = "alpha=" \o PyStr(alpha[
                       Into(stores, IF shown[t].cell = 34 THEN "ridge_coefs"
                                    ELSE "lasso_coefs")[j].pen])

\* both tables have been displayed
C9_Witness ==
    /\ pc = 37
    /\ Len(shown) = 3
    /\ shown[2].cell = 34 /\ shown[3].cell = 35
    /\ NumRows(shown[3].values) = 9

\* C10: after the degree loop coef_holder is lower-triangular: every entry
\* coef_holder[r, c] with c > r still holds the 0 it was allocated with,
\* as pass i writes only columns 0..i-1 of row i-1; the rows that no pass
\* has reached hold nothing but zeros.
C10_LowerTriangular ==
    "coef_holder" \in bound =>
        /\ \A r \in 1..NumRows(coef_holder) :
              \A c \in 1..NumCols(coef_holder) :
                 c > r => coef_holder[r][c] = 0
        /\ \A r \in 1..NumRows(coef_holder) :
              r > Len(From(stores, 6)) =>
                 \A c \in 1..NumCols(coef_holder) : coef_holder[r][c] = 0

\* the degree loop is over and has written something other than 0 into the
\* first and the last column of the last row
C10_Witness ==
    /\ pc = 7
    /\ 6 \in executed
    /\ coef_holder[n_cell5][1] # 0
    /\ coef_holder[n_cell5][n_cell5] # 0

\* the array a table-display cell hands to pd.DataFrame
Displayed(c) ==
    IF c = 7 THEN coef_holder
    ELSE IF c = 34 THEN ridge_coefs ELSE lasso_coefs

\* the number of row labels a table-display cell builds
RowLabels(c) == IF c = 7 THEN RangeLen(1, n + 1) ELSE Len(alpha)

\* C11: at each table-display cell the number of column labels and of row
\* labels built from the current n (and alpha) equals the column count and
\* the row count of the array displayed: 26 and 26 for coef_holder at
\* cell 7, 10 and len(alpha) = 9 for ridge_coefs and lasso_coefs at cells 34
\* and 35, so that no display raises ValueError and every table displayed
\* has a label per column and per row; n is rebound from 26 to 10 only
\* after the one display of the 26-by-26 array.
C11_TableLabels ==
    /\ status = "ValueError" => pc \notin {7, 34, 35}
    /\ \A c \in {7, 34, 35} :
          Running(c) =>
             /\ RangeLen(1, n + 1) = NumCols(Displayed(c))
             /\ RowLabels(c) = NumRows(Displayed(c))
             /\ n = (IF c = 7 THEN n_cell5 ELSE n_cell33)
             /\ NumCols(Displayed(c)) = n
             /\ NumRows(Displayed(c)) = (IF c = 7 THEN n_cell5 ELSE 9)
    /\ "ridge_coefs" \in bound =>
          NumRows(ridge_coefs) = Len(alpha) /\ NumCols(ridge_coefs) = n
    /\ "lasso_coefs" \in bound =>
          NumRows(lasso_coefs) = Len(alpha) /\ NumCols(lasso_coefs) = n
    /\ \A t \in 1..Len(shown) :
          /\ Len(shown[t].columns) = NumCols(shown[t].values)
          /\ Len(shown[t].index) = NumRows(shown[t].values)
          /\ shown[t].cell = 7 =>
                /\ t = 1
                /\ Len(shown[t].columns) = n_cell5
                /\ Len(shown[t].index) = n_cell5
          /\ shown[t].cell \in {34, 35} =>
                /\ Len(shown[t].columns) = n_cell33
                /\ Len(shown[t].index) = 9
    /\ 33 \in writers["n"] =>
          /\ n = n_cell33
          /\ 7 \in executed
          /\ pc >= 33
          /\ NumRows(coef_holder) = n_cell5 /\ NumCols(coef_holder) = n_cell5

\* the three tables have been displayed, the first with 26 labels each way
\* while n was 26, the other two with 10 column and 9 row labels after n
\* was rebound to 10, the 26-by-26 array still being there
C11_Witness ==
    /\ status = "ok"
    /\ {7, 34, 35} \subseteq executed
    /\ [t \in 1..Len(shown) |-> shown[t].cell] = <<7, 34, 35>>
    /\ n = n_cell33
    /\ writers["n"] = {5, 33}
    /\ NumRows(coef_holder) = n_cell5
    /\ Len(shown[1].columns) = n_cell5
    /\ Len(shown[2].columns) = n_cell33 /\ Len(shown[2].index) = 9
    /\ Len(shown[3].columns) = n_cell33 /\ Len(shown[3].index) = 9

====
